---- MODULE Spec2Model ----
(***************************************************************************)
(* The per-client rate limiter of cmd/api/middleware.go (rateLimit): the   *)
(* request handlers, the background goroutine that removes old entries,    *)
(* the mutex and the clients map, with golang.org/x/time/rate's token      *)
(* bucket behind limiter.Allow().  Beside it, the update of a movie        *)
(* (cmd/api/movies.go updateMovieHandler over internal/data/movies.go      *)
(* MovieModel.Update) against the one row of the movies table it names,    *)
(* and the sending of an email with its retries (internal/mailer/mailer.go *)
(* Mailer.Send).                                                           *)
(*                                                                         *)
(* Time is counted in ticks of 1/(rps*Scale) seconds, so that one tick     *)
(* refills 1/Scale of a token; token counts are kept in units of 1/Scale   *)
(* token.  Instants are kept as ages (now - instant), saturated where the  *)
(* code can no longer tell them apart.                                     *)
(***************************************************************************)
EXTENDS Integers, Sequences, FiniteSets, TLC

\* ---------------------------------------------------------------- bounds
NumReq == 5        \* request handler goroutines in a run of SpecBurst
FewReq == 2        \* request handler goroutines in a run with a moving clock
FairReq == 1       \* request handler goroutines in a run under fair scheduling
NumUpd == 3        \* PUT /v1/movies/:id requests for one movie in a run
NumMail == 3       \* calls of Mailer.Send in a run
MaxBurst == 2      \* largest -limiter-burst tried with a moving clock
MaxFine == 4       \* single-tick clock advances in a run of SpecRefill
Scale == 2         \* token sub-units per token (resolution of the clock)

\* ------------------------------------------------------- program constants
rps == 2           \* -limiter-rps default
DefaultBurst == 4  \* -limiter-burst default
SleepMinutes == 1  \* time.Sleep(time.Minute)
IdleMinutes == 3   \* 3*time.Minute

TicksPerSecond == rps * Scale
Minute == 60 * TicksPerSecond
SleepInterval == SleepMinutes * Minute
MaxIdleTicks == IdleMinutes * Minute
OneToken == Scale                      \* one token, in token units
ZeroTimeIdle == MaxIdleTicks + 1       \* age of the zero time.Time, saturated

Unknown == ""      \* realip.FromRequest(r) when it resolves no address
IPs == {Unknown, "a"}
Reqs == 1 .. NumReq
NoOne == 0
Sweeper == NumReq + 1
Nil == 0

Min(x, y) == IF x < y THEN x ELSE y
Max(x, y) == IF x > y THEN x ELSE y

VARIABLES
  enabled,    \* app.config.limiter.enabled
  burst,      \* app.config.limiter.burst
  nreq,       \* how many requests this run receives
  clients,    \* the map: ip -> pointer (an id of heap)
  heap,       \* the Client structs ever allocated: pointer -> record
  mutex,      \* holder of the mutex: NoOne, a request or Sweeper
  pc,         \* each request handler's position
  ip,         \* each request's realip.FromRequest(r)
  ptr,        \* the *Client a statement of the handler has loaded from the map
  out,        \* each request's outcome: "none", "next", "429"
  epc,        \* the cleanup goroutine's position
  sleepLeft,  \* ticks left of its time.Sleep
  todo,       \* keys its range loop has still to visit
  stale0,     \* bookkeeping: the keys that were stale when the sweep took the mutex
  fine,       \* single-tick advances so far
  shutdown,   \* the server has begun its graceful shutdown
  stopAge,    \* bookkeeping: ticks since it began, saturated
  loops,      \* how many cleanup goroutines have been launched
  row,        \* the row of the movies table with the id of the requests
  upc,        \* each updateMovieHandler's position
  mv,         \* its `movie`: the struct Get returned, as it stands
  basis,      \* bookkeeping: the version its Get read
  uerr,       \* what its call of Update returned
  ures,       \* the status of its response
  dres,       \* the status of the response of the one DELETE request
  sends       \* each call of Mailer.Send: its position, i, err and what it returned

vars == <<enabled, burst, nreq, clients, heap, mutex, pc, ip, ptr, out,
          epc, sleepLeft, todo, stale0, fine, shutdown, stopAge, loops,
          row, upc, mv, basis, uerr, ures, dres, sends>>

cvars == <<enabled, burst, nreq>>
hvars == <<pc, ip, ptr, out>>
evars == <<epc, sleepLeft, todo, stale0>>
svars == <<shutdown, stopAge>>
dvars == <<row, upc, mv, basis, uerr, ures, dres>>
lvars == <<cvars, hvars, evars, svars, clients, heap, mutex, fine, loops>>

\* ---------------------------------------------------------- rate.Limiter
FullTokens == burst * Scale            \* capacity, in token units
ZeroTimeAge == FullTokens              \* limiter age from which the bucket is full

\* Mutant: every request is filed under one key.
KeyShared(r) == "a"

\* ip := realip.FromRequest(r): the key of the request in the map
Key(r) == ip[r]

\* Mutant: a limiter that starts empty (last = now rather than the zero time).
NewClientEmpty(r) == [tokens |-> 0, age |-> 0, idle |-> ZeroTimeIdle,
                      key |-> Key(r), by |-> r]

\* &Client{limiter: rate.NewLimiter(rate.Limit(rps), burst)}: tokens 0, last and
\* lastSeen the zero time.  (key and by are bookkeeping, not fields of the
\* struct: the key it was stored under and the request that allocated it.)
NewClient(r) == [tokens |-> 0, age |-> ZeroTimeAge, idle |-> ZeroTimeIdle,
                 key |-> Key(r), by |-> r]

\* Mutant: the refill is not capped at burst.
AdvancedNoCap(c) == c.tokens + c.age

\* Mutant: the time since last is not credited.
AdvancedNoRefill(c) == Min(FullTokens, c.tokens)

\* Limiter.advance: the tokens at `now`, from the time since last, capped at burst.
Advanced(c) == Min(FullTokens, c.tokens + c.age)

\* Mutant: exactly one token left is not enough.
AllowOkStrict(c) == Min(FullTokens, c.tokens + c.age) - OneToken > 0

\* Limiter.reserveN(now, 1, 0).ok
AllowOk(c) == Advanced(c) - OneToken >= 0

\* Mutant: a refusal sets last = now and keeps the stored tokens, so the
\* refill accrued since last is lost.
AfterAllowDenyResetsLast(c) ==
  IF AllowOk(c)
  THEN [c EXCEPT !.tokens = Advanced(c) - OneToken, !.age = 0]
  ELSE [c EXCEPT !.age = 0]

\* Limiter.reserveN's update: on ok, last = now and tokens = advanced - 1;
\* otherwise the limiter is left as it was.
AfterAllow(c) ==
  IF AllowOk(c)
  THEN [c EXCEPT !.tokens = Advanced(c) - OneToken, !.age = 0]
  ELSE c

\* ---------------------------------------------------------------- movies
Upds == 1 .. NumUpd
Absent == {}                           \* a key the JSON body does not hold: a nil pointer
NoMovie == [title |-> "", year |-> 0, version |-> 0]   \* the zero Movie

\* The row as INSERT left it: a movie that passed ValidateMovie, at version 1.
FirstVersion == 1
MoviesInit ==
  /\ row = [present |-> TRUE, title |-> "old", year |-> 1999, version |-> FirstVersion]
  /\ upc = [u \in Upds |-> "get"]
  /\ mv = [u \in Upds |-> NoMovie]
  /\ basis = [u \in Upds |-> 0]
  /\ uerr = [u \in Upds |-> "none"]
  /\ ures = [u \in Upds |-> "none"]
  /\ dres = "none"

\* ---------------------------------------------------------------- mailer
MaxAttempts == 3                       \* for i := 1; i <= 3; i++
RetrySleepMs == 500                    \* time.Sleep(500 * time.Millisecond)
Mails == 1 .. NumMail
NoErr == <<"nil", 0>>                  \* the nil error
NotYet == <<"none", 0>>                \* bookkeeping: Send has not returned

\* No call of Send has begun.  (sent and slept are bookkeeping: the calls of
\* email.Send made so far and the milliseconds slept.)
MailerInit ==
  sends = [m \in Mails |-> [pc |-> "start", i |-> 0, err |-> NoErr,
                            ret |-> NotYet, sent |-> 0, slept |-> 0]]

\* ------------------------------------------------------------------ Init
\* rateLimit has run up to its return (lines 58-85): the map is empty, the
\* mutex free, one cleanup goroutine launched and in its first sleep, and no
\* request has reached the handler it returns.
InitWith(b, n) ==
  /\ enabled \in BOOLEAN
  /\ burst = b
  /\ nreq = n
  /\ clients = << >>
  /\ heap = << >>
  /\ mutex = NoOne
  /\ pc = [r \in Reqs |-> "new"]
  /\ ip = [r \in Reqs |-> "a"]
  /\ ptr = [r \in Reqs |-> Nil]
  /\ out = [r \in Reqs |-> "none"]
  /\ epc = "sleep"
  /\ sleepLeft = SleepInterval
  /\ todo = {}
  /\ stale0 = {}
  /\ fine = 0
  /\ shutdown = FALSE
  /\ stopAge = 0
  /\ loops = 1
  /\ MoviesInit
  /\ MailerInit

\* The process as main() configures it by default.
InitBurst == InitWith(DefaultBurst, NumReq)

\* The process with a smaller -limiter-burst.
Init == \E b \in 1 .. MaxBurst : InitWith(b, FewReq)

\* ------------------------------------------------------- request handler
\* Mutant: the enabled flag is not consulted.
ArriveAlwaysLimit(r, i) ==
  /\ pc[r] = "new"
  /\ r <= nreq
  /\ IF r = 1 THEN i = Unknown ELSE pc[r - 1] # "new"
  /\ ip' = [ip EXCEPT ![r] = i]
  /\ pc' = [pc EXCEPT ![r] = "lock"]
  /\ UNCHANGED <<cvars, dvars, sends, svars, loops, clients, heap, mutex, ptr, out, evars, fine>>

\* Mutant: the `go func()` of line 64 stands inside the handler.
ArriveLaunching(r, i) ==
  /\ pc[r] = "new"
  /\ r <= nreq
  /\ IF r = 1 THEN i = Unknown ELSE pc[r - 1] # "new"
  /\ ip' = [ip EXCEPT ![r] = i]
  /\ pc' = [pc EXCEPT ![r] = IF enabled THEN "lock" ELSE "next"]
  /\ loops' = loops + 1
  /\ UNCHANGED <<cvars, dvars, sends, svars, clients, heap, mutex, ptr, out, evars, fine>>

\* Mutant: a request whose address is unknown is passed on unchecked.
ArriveSkipUnknown(r, i) ==
  /\ pc[r] = "new"
  /\ r <= nreq
  /\ IF r = 1 THEN i = Unknown ELSE pc[r - 1] # "new"
  /\ ip' = [ip EXCEPT ![r] = i]
  /\ pc' = [pc EXCEPT ![r] = IF enabled /\ i # Unknown THEN "lock" ELSE "next"]
  /\ UNCHANGED <<cvars, dvars, sends, svars, loops, clients, heap, mutex, ptr, out, evars, fine>>

\* Mutant: the enabled flag is consulted only for a request with an address.
ArriveLimitUnknown(r, i) ==
  /\ pc[r] = "new"
  /\ r <= nreq
  /\ IF r = 1 THEN i = Unknown ELSE pc[r - 1] # "new"
  /\ ip' = [ip EXCEPT ![r] = i]
  /\ pc' = [pc EXCEPT ![r] = IF enabled \/ i = Unknown THEN "lock" ELSE "next"]
  /\ UNCHANGED <<cvars, dvars, sends, svars, loops, clients, heap, mutex, ptr, out, evars, fine>>

\* A request enters the handler (lines 85-89): the enabled check and realip.
\* Requests are numbered in the order they arrive.  The handler uses the
\* string only as a key of the map, so which key appears first in a run does
\* not matter: it is taken to be the empty string.
Arrive(r, i) ==
  /\ pc[r] = "new"
  /\ r <= nreq
  /\ IF r = 1 THEN i = Unknown ELSE pc[r - 1] # "new"
  /\ ip' = [ip EXCEPT ![r] = i]
  /\ pc' = [pc EXCEPT ![r] = IF enabled THEN "lock" ELSE "next"]
  /\ UNCHANGED <<cvars, dvars, sends, svars, loops, clients, heap, mutex, ptr, out, evars, fine>>

\* Mutant: a Lock that does not wait for the holder.
AcquireNoWait(who) == mutex' = who

\* mutex.Lock() by `who`
Acquire(who) ==
  /\ mutex = NoOne
  /\ mutex' = who

\* mutex.Unlock()
Release == mutex' = NoOne

\* Mutant: the handler goes on without taking the mutex.
LockSkip(r) ==
  /\ pc[r] = "lock"
  /\ pc' = [pc EXCEPT ![r] = "find"]
  /\ UNCHANGED <<cvars, dvars, sends, svars, loops, clients, heap, mutex, ip, ptr, out, evars, fine>>

\* line 92
Lock(r) ==
  /\ pc[r] = "lock"
  /\ Acquire(r)
  /\ pc' = [pc EXCEPT ![r] = "find"]
  /\ UNCHANGED <<cvars, dvars, sends, svars, loops, clients, heap, ip, ptr, out, evars, fine>>

\* Mutant: the found check is missing, every request stores a new Client.
FindAlwaysCreate(r) ==
  /\ pc[r] = "find"
  /\ pc' = [pc EXCEPT ![r] = "create"]
  /\ UNCHANGED <<cvars, dvars, sends, svars, loops, clients, heap, mutex, ip, ptr, out, evars, fine>>

\* line 96: if _, found := clients[ip]; !found
Find(r) ==
  /\ pc[r] = "find"
  /\ pc' = [pc EXCEPT ![r] = IF Key(r) \in DOMAIN clients THEN "seen" ELSE "create"]
  /\ UNCHANGED <<cvars, dvars, sends, svars, loops, clients, heap, mutex, ip, ptr, out, evars, fine>>

\* line 97: clients[ip] = &Client{limiter: rate.NewLimiter(...)}
Create(r) ==
  /\ pc[r] = "create"
  /\ LET p == Len(heap) + 1 IN
     /\ heap' = Append(heap, NewClient(r))
     /\ clients' = [k \in DOMAIN clients \cup {Key(r)} |->
                      IF k = Key(r) THEN p ELSE clients[k]]
  /\ pc' = [pc EXCEPT ![r] = "seen"]
  /\ UNCHANGED <<cvars, dvars, sends, svars, loops, mutex, ip, ptr, out, evars, fine>>

\* clients[ip]: the map's value for the request's key, nil when absent
Lookup(r) == IF Key(r) \in DOMAIN clients THEN clients[Key(r)] ELSE Nil

\* line 101, left side: clients[ip]
SeenLoad(r) ==
  /\ pc[r] = "seen"
  /\ ptr' = [ptr EXCEPT ![r] = Lookup(r)]
  /\ pc' = [pc EXCEPT ![r] = "stamp"]
  /\ UNCHANGED <<cvars, dvars, sends, svars, loops, clients, heap, mutex, ip, out, evars, fine>>

\* Mutant: lastSeen is set only for a request that Allow() will admit.
SeenStoreIfAllowed(r) ==
  /\ pc[r] = "stamp"
  /\ IF ptr[r] # Nil
     THEN /\ heap' = IF AllowOk(heap[ptr[r]])
                     THEN [heap EXCEPT ![ptr[r]].idle = 0]
                     ELSE heap
          /\ pc' = [pc EXCEPT ![r] = "load"]
     ELSE /\ heap' = heap
          /\ pc' = [pc EXCEPT ![r] = "panic"]
  /\ ptr' = [ptr EXCEPT ![r] = Nil]
  /\ UNCHANGED <<cvars, dvars, sends, svars, loops, clients, mutex, ip, out, evars, fine>>

\* line 101: .lastSeen = time.Now()  (a nil pointer panics)
SeenStore(r) ==
  /\ pc[r] = "stamp"
  /\ IF ptr[r] # Nil
     THEN /\ heap' = [heap EXCEPT ![ptr[r]].idle = 0]
          /\ pc' = [pc EXCEPT ![r] = "load"]
     ELSE /\ heap' = heap
          /\ pc' = [pc EXCEPT ![r] = "panic"]
  /\ ptr' = [ptr EXCEPT ![r] = Nil]
  /\ UNCHANGED <<cvars, dvars, sends, svars, loops, clients, mutex, ip, out, evars, fine>>

\* line 105: clients[ip]
AllowLoad(r) ==
  /\ pc[r] = "load"
  /\ ptr' = [ptr EXCEPT ![r] = Lookup(r)]
  /\ pc' = [pc EXCEPT ![r] = "allow"]
  /\ UNCHANGED <<cvars, dvars, sends, svars, loops, clients, heap, mutex, ip, out, evars, fine>>

\* line 105: if !(...).limiter.Allow()
AllowCall(r) ==
  /\ pc[r] = "allow"
  /\ IF ptr[r] # Nil
     THEN /\ heap' = [heap EXCEPT ![ptr[r]] = AfterAllow(heap[ptr[r]])]
          /\ pc' = [pc EXCEPT ![r] = IF AllowOk(heap[ptr[r]]) THEN "unlockA" ELSE "unlockD"]
     ELSE /\ heap' = heap
          /\ pc' = [pc EXCEPT ![r] = "panic"]
  /\ ptr' = [ptr EXCEPT ![r] = Nil]
  /\ UNCHANGED <<cvars, dvars, sends, svars, loops, clients, mutex, ip, out, evars, fine>>

\* Mutant: the deny path returns without the Unlock of line 106.
UnlockDenyMissing(r) ==
  /\ pc[r] = "unlockD"
  /\ pc' = [pc EXCEPT ![r] = "respond"]
  /\ UNCHANGED <<cvars, dvars, sends, svars, loops, clients, heap, mutex, ip, ptr, out, evars, fine>>

\* line 106: mutex.Unlock() on the deny path
UnlockDeny(r) ==
  /\ pc[r] = "unlockD"
  /\ Release
  /\ pc' = [pc EXCEPT ![r] = "respond"]
  /\ UNCHANGED <<cvars, dvars, sends, svars, loops, clients, heap, ip, ptr, out, evars, fine>>

\* Mutant: the return of line 108 is missing, the handler runs on to line 115.
Respond429NoReturn(r) ==
  /\ pc[r] = "respond"
  /\ out' = [out EXCEPT ![r] = "429"]
  /\ pc' = [pc EXCEPT ![r] = "unlockA"]
  /\ UNCHANGED <<cvars, dvars, sends, svars, loops, clients, heap, mutex, ip, ptr, evars, fine>>

\* lines 107-108: app.rateLimitExceededResponse(w, r); return
Respond429(r) ==
  /\ pc[r] = "respond"
  /\ out' = [out EXCEPT ![r] = "429"]
  /\ pc' = [pc EXCEPT ![r] = "done"]
  /\ UNCHANGED <<cvars, dvars, sends, svars, loops, clients, heap, mutex, ip, ptr, evars, fine>>

\* line 115: mutex.Unlock() on the allow path
UnlockAllow(r) ==
  /\ pc[r] = "unlockA"
  /\ Release
  /\ pc' = [pc EXCEPT ![r] = "next"]
  /\ UNCHANGED <<cvars, dvars, sends, svars, loops, clients, heap, ip, ptr, out, evars, fine>>

\* line 118: next.ServeHTTP(w, r)
ServeNext(r) ==
  /\ pc[r] = "next"
  /\ out' = [out EXCEPT ![r] = "next"]
  /\ pc' = [pc EXCEPT ![r] = "done"]
  /\ UNCHANGED <<cvars, dvars, sends, svars, loops, clients, heap, mutex, ip, ptr, evars, fine>>

\* ----------------------------------------------------- cleanup goroutine
\* line 66: time.Sleep(time.Minute) returns
Wake ==
  /\ epc = "sleep"
  /\ sleepLeft = 0
  /\ epc' = "lock"
  /\ UNCHANGED <<cvars, dvars, sends, svars, loops, clients, heap, mutex, hvars, sleepLeft, todo, stale0, fine>>

\* Mutant: an entry idle for exactly the threshold counts as old.
StaleAtThreshold(c) == c.idle >= MaxIdleTicks

\* Mutant: the threshold is taken in hours, which no idle time kept here reaches.
StaleHours(c) == c.idle > 60 * MaxIdleTicks

\* line 75: time.Since(client.lastSeen) > 3*time.Minute
Stale(c) == c.idle > MaxIdleTicks

\* Mutant: the cleanup starts its loop without taking the mutex.
SweepLockNoMutex ==
  /\ epc = "lock"
  /\ epc' = "scan"
  /\ todo' = DOMAIN clients
  /\ stale0' = {k \in DOMAIN clients : Stale(heap[clients[k]])}
  /\ UNCHANGED <<cvars, dvars, sends, svars, loops, clients, heap, mutex, hvars, sleepLeft, fine>>

\* line 70: mutex.Lock(); line 74: the range loop starts
SweepLock ==
  /\ epc = "lock"
  /\ Acquire(Sweeper)
  /\ epc' = "scan"
  /\ todo' = DOMAIN clients
  /\ stale0' = {k \in DOMAIN clients : Stale(heap[clients[k]])}
  /\ UNCHANGED <<cvars, dvars, sends, svars, loops, clients, heap, hvars, sleepLeft, fine>>

\* lines 74-78: one iteration of the range loop
SweepOne(i) ==
  /\ epc = "scan"
  /\ i \in todo
  /\ todo' = todo \ {i}
  /\ clients' = IF i \in DOMAIN clients /\ Stale(heap[clients[i]])
                THEN [k \in DOMAIN clients \ {i} |-> clients[k]]
                ELSE clients
  /\ UNCHANGED <<cvars, dvars, sends, svars, loops, heap, mutex, hvars, epc, sleepLeft, stale0, fine>>

\* line 81: mutex.Unlock(), and back to line 66
SweepUnlock ==
  /\ epc = "scan"
  /\ todo = {}
  /\ Release
  /\ epc' = "sleep"
  /\ sleepLeft' = SleepInterval
  /\ stale0' = {}
  /\ UNCHANGED <<cvars, dvars, sends, svars, loops, clients, heap, hvars, todo, fine>>

\* ------------------------------------------------------------------ time
\* The Client structs the map points to
Live == {clients[k] : k \in DOMAIN clients}

\* now - last and now - lastSeen after d more ticks
Aged(c, d) == [c EXCEPT !.age = Min(ZeroTimeAge, c.age + d),
                        !.idle = Min(ZeroTimeIdle, c.idle + d)]

\* The clock moves on by d ticks.
Pass(d) ==
  /\ heap' = [p \in DOMAIN heap |-> IF p \in Live THEN Aged(heap[p], d) ELSE heap[p]]
  /\ sleepLeft' = IF epc = "sleep" THEN Max(0, sleepLeft - d) ELSE sleepLeft
  /\ stopAge' = IF shutdown THEN Min(SleepInterval + 1, stopAge + d) ELSE stopAge
  /\ UNCHANGED <<cvars, dvars, sends, shutdown, loops, clients, mutex, hvars, epc, todo, stale0>>

TickFine ==
  /\ fine < MaxFine
  /\ fine' = fine + 1
  /\ Pass(1)

TickMinute ==
  /\ fine' = fine
  /\ Pass(Minute)

\* ------------------------------------------------ updating a movie
FirstFilmYear == 1888                  \* v.Check(movie.Year >= 1888, ...)
ThisYear == 2026                       \* int32(time.Now().Year())
\* A body readJSON rejects
BadJSON == [ok |-> FALSE, title |-> Absent, year |-> Absent]

\* The bodies tried: each key absent or present (a pointer to the value: the
\* title new, the year one that passes or the zero that does not), or no
\* acceptable JSON at all.
Inputs ==
  {BadJSON} \cup [ok : {TRUE}, title : {Absent, {"new"}}, year : {Absent, {0}, {2001}}]

\* *p of a pointer that is not nil
Deref(p) == CHOOSE x \in p : TRUE

\* cmd/api/movies.go lines 136-142: the keys of the body are copied into the
\* fetched movie, the others are left as Get read them.
Copied(m, in) ==
  [m EXCEPT !.title = IF in.title # Absent THEN Deref(in.title) ELSE @,
            !.year = IF in.year # Absent THEN Deref(in.year) ELSE @]

\* ValidateMovie, for the title and the year (runtime and genres are checked
\* and written in the same way and are left out).
ValidMovie(m) ==
  /\ m.title # "" /\ Len(m.title) <= 500
  /\ m.year # 0 /\ m.year >= FirstFilmYear /\ m.year <= ThisYear

\* Mutant: the statement finds its row by id alone.
MatchesById(u) == row.present

\* WHERE id = $5 and version = $6
Matches(u) == row.present /\ row.version = mv[u].version

\* SET title = $1, year = $2, ..., version = version + 1
Written(u) ==
  [present |-> TRUE, title |-> mv[u].title, year |-> mv[u].year,
   version |-> row.version + 1]

\* A handler answers with status st and returns.
Answer(u, st) ==
  /\ ures' = [ures EXCEPT ![u] = st]
  /\ upc' = [upc EXCEPT ![u] = "done"]

\* cmd/api/movies.go lines 106-117: app.models.Movie.Get(id).  ok is whether
\* the database answered the query.  Requests are numbered in the order of
\* their Get.
GetMovie(u, ok) ==
  /\ upc[u] = "get"
  /\ u > 1 => upc[u - 1] # "get"
  /\ IF ~ok
     THEN Answer(u, "500") /\ UNCHANGED <<mv, basis>>
     ELSE IF ~row.present
     THEN Answer(u, "404") /\ UNCHANGED <<mv, basis>>
     ELSE /\ mv' = [mv EXCEPT ![u] = [title |-> row.title, year |-> row.year,
                                      version |-> row.version]]
          /\ basis' = [basis EXCEPT ![u] = row.version]
          /\ upc' = [upc EXCEPT ![u] = "decode"]
          /\ ures' = ures
  /\ UNCHANGED <<lvars, sends, row, uerr, dres>>

\* lines 128-159: readJSON, the copy into the movie, and the validation
Decode(u, in) ==
  /\ upc[u] = "decode"
  /\ IF ~in.ok
     THEN Answer(u, "400") /\ mv' = mv
     ELSE /\ mv' = [mv EXCEPT ![u] = Copied(mv[u], in)]
          /\ IF ValidMovie(Copied(mv[u], in))
             THEN upc' = [upc EXCEPT ![u] = "update"] /\ ures' = ures
             ELSE Answer(u, "422")
  /\ UNCHANGED <<lvars, sends, row, basis, uerr, dres>>

\* lines 161-178 with MovieModel.Update (internal/data/movies.go 116-146): the
\* one UPDATE statement, which the database runs as a whole, and the switch
\* on what Scan returned.  The database either runs the statement and
\* answers ("answered": the new version is scanned into movie.Version, or
\* there is no row and Scan returns sql.ErrNoRows), or does not run it
\* ("refused": no connection, or the 3 seconds were over before), or runs it
\* while the caller gives up on the answer ("unanswered": the 3 seconds were
\* over after): in the last two Update returns the driver's error.
UpdateMovie(u, fate) ==
  /\ upc[u] = "update"
  /\ fate = "unanswered" => Matches(u)
  /\ row' = IF fate # "refused" /\ Matches(u) THEN Written(u) ELSE row
  /\ mv' = IF fate = "answered" /\ Matches(u)
           THEN [mv EXCEPT ![u].version = Written(u).version]
           ELSE mv
  /\ uerr' = [uerr EXCEPT ![u] =
               IF fate # "answered" THEN "err"
               ELSE IF Matches(u) THEN "nil" ELSE "ErrEditConflict"]
  /\ Answer(u, IF fate # "answered" THEN "500"
               ELSE IF Matches(u) THEN "200" ELSE "409")
  /\ UNCHANGED <<lvars, sends, basis, dres>>

\* deleteMovieHandler with MovieModel.Delete (internal/data/movies.go 149-177)
DeleteMovie(ok) ==
  /\ dres = "none"
  /\ row' = IF ok THEN [row EXCEPT !.present = FALSE] ELSE row
  /\ dres' = IF ~ok THEN "500" ELSE IF row.present THEN "200" ELSE "404"
  /\ UNCHANGED <<lvars, sends, upc, mv, basis, uerr, ures>>

\* --------------------------------------------------- sending an email
\* The error of the i-th call of email.Send, and of the steps before the loop
SendErr(i) == <<"send", i>>
TemplateErr == <<"template", 0>>
ConnectErr == <<"connect", 0>>

\* Mutant: the loop runs while i <= 4.
AgainOnceMore(i) == i <= MaxAttempts + 1

\* line 94: i <= 3
Again(i) == i <= MaxAttempts

\* lines 50-90, 94: the templates are parsed and executed, the message is set
\* up and the server connected to; an error of any of these is returned at
\* once.  Otherwise the loop begins with i = 1.  Calls are numbered in the
\* order they begin.
Prepare(m, how) ==
  /\ sends[m].pc = "start"
  /\ m > 1 => sends[m - 1].pc # "start"
  /\ sends' = [sends EXCEPT ![m] =
       IF how = "ok"
       THEN [@ EXCEPT !.i = 1, !.pc = IF Again(1) THEN "send" ELSE "return"]
       ELSE [@ EXCEPT !.err = IF how = "template" THEN TemplateErr ELSE ConnectErr,
                      !.ret = IF how = "template" THEN TemplateErr ELSE ConnectErr,
                      !.pc = "done"]]
  /\ UNCHANGED <<lvars, dvars>>

\* lines 95-100: err = email.Send(client), and return nil if it is nil.
\* Whether the attempt works is the mail server's and the library's affair.
Attempt(m, ok) ==
  /\ sends[m].pc = "send"
  /\ sends' = [sends EXCEPT ![m] =
       IF ok
       THEN [@ EXCEPT !.sent = @ + 1, !.err = NoErr, !.ret = NoErr, !.pc = "done"]
       ELSE [@ EXCEPT !.sent = @ + 1, !.err = SendErr(sends[m].i), !.pc = "sleep"]]
  /\ UNCHANGED <<lvars, dvars>>

\* lines 103, 94: time.Sleep(500 * time.Millisecond) returns, i++, i <= 3
Sleep(m) ==
  /\ sends[m].pc = "sleep"
  /\ sends' = [sends EXCEPT ![m] =
       [@ EXCEPT !.slept = @ + RetrySleepMs,
                 !.i = @ + 1,
                 !.pc = IF Again(sends[m].i + 1) THEN "send" ELSE "return"]]
  /\ UNCHANGED <<lvars, dvars>>

\* line 106: return err
ReturnErr(m) ==
  /\ sends[m].pc = "return"
  /\ sends' = [sends EXCEPT ![m] = [@ EXCEPT !.ret = sends[m].err, !.pc = "done"]]
  /\ UNCHANGED <<lvars, dvars>>

\* ------------------------------------------------------- specifications
Handler ==
  \/ \E r \in Reqs, i \in IPs : Arrive(r, i)
  \/ \E r \in Reqs : Lock(r)
  \/ \E r \in Reqs : Find(r)
  \/ \E r \in Reqs : Create(r)
  \/ \E r \in Reqs : SeenLoad(r)
  \/ \E r \in Reqs : SeenStore(r)
  \/ \E r \in Reqs : AllowLoad(r)
  \/ \E r \in Reqs : AllowCall(r)
  \/ \E r \in Reqs : UnlockDeny(r)
  \/ \E r \in Reqs : Respond429(r)
  \/ \E r \in Reqs : UnlockAllow(r)
  \/ \E r \in Reqs : ServeNext(r)

Cleanup ==
  \/ Wake
  \/ SweepLock
  \/ \E i \in IPs : SweepOne(i)
  \/ SweepUnlock

\* The server over minutes: requests, the cleanup goroutine, and a clock that
\* is read at whole minutes.
Next == Handler \/ Cleanup \/ TickMinute

Spec == Init /\ [][Next]_vars

\* A burst of requests within one instant, with the default configuration.
SpecBurst == InitBurst /\ [][Handler]_vars

\* Requests over the first seconds (the cleanup goroutine still sleeps).
NextRefill == Handler \/ TickFine

SpecRefill == Init /\ [][NextRefill]_vars

\* The steps of request r once it has entered the handler, mutex.Lock() apart
Proceed(r) ==
  \/ Find(r) \/ Create(r) \/ SeenLoad(r) \/ SeenStore(r)
  \/ AllowLoad(r) \/ AllowCall(r)
  \/ UnlockDeny(r) \/ Respond429(r) \/ UnlockAllow(r) \/ ServeNext(r)

\* What the Go runtime guarantees of the goroutines: each runnable goroutine
\* is scheduled (weak fairness of its steps), the clock moves on, and
\* sync.Mutex hands the mutex to a goroutine that keeps waiting for it (its
\* starvation mode), which is strong fairness of each Lock().  Nothing makes
\* a client send a request: Arrive has no fairness.
Fairness ==
  /\ \A r \in Reqs : WF_vars(Proceed(r)) /\ SF_vars(Lock(r))
  /\ WF_vars(Wake)
  /\ SF_vars(SweepLock)
  /\ WF_vars(\E i \in IPs : SweepOne(i))
  /\ WF_vars(SweepUnlock)
  /\ WF_vars(TickMinute)

\* The process with a -limiter-burst from 0 on: with burst 0 Allow() admits
\* nothing, so that a single request may take either path.
InitFair == \E b \in 0 .. MaxBurst : InitWith(b, FairReq)

\* The server over minutes, with goroutines that are scheduled.
SpecFair == InitFair /\ [][Next]_vars /\ Fairness

\* The server begins its graceful shutdown (on SIGINT or SIGTERM).  Nothing in
\* rateLimit reads the signal: no step above has shutdown in its guard.
BeginShutdown ==
  /\ ~shutdown
  /\ shutdown' = TRUE
  /\ UNCHANGED <<cvars, dvars, sends, stopAge, loops, clients, heap, mutex, hvars, evars, fine>>

\* The server hands a request to the handler: it accepts none once it is
\* shutting down, and lets those in flight finish.
Accept(r, i) == ~shutdown /\ Arrive(r, i)

NextStop ==
  \/ \E r \in Reqs, i \in IPs : Accept(r, i)
  \/ \E r \in Reqs : Lock(r)
  \/ \E r \in Reqs : Proceed(r)
  \/ Cleanup
  \/ TickMinute
  \/ BeginShutdown

\* The server over minutes, up to and through a graceful shutdown.
SpecStop == Init /\ [][NextStop]_vars

Fates == {"answered", "refused", "unanswered"}

NextMovies ==
  \/ \E u \in Upds, ok \in BOOLEAN : GetMovie(u, ok)
  \/ \E u \in Upds, in \in Inputs : Decode(u, in)
  \/ \E u \in Upds, fate \in Fates : UpdateMovie(u, fate)
  \/ \E ok \in BOOLEAN : DeleteMovie(ok)

\* The process with every limiter flag at its default
InitDefault == InitBurst /\ enabled

\* Concurrent PUT requests, and a DELETE, for one movie.
SpecMovies == InitDefault /\ [][NextMovies]_vars

NextMail ==
  \/ \E m \in Mails, how \in {"ok", "template", "connect"} : Prepare(m, how)
  \/ \E m \in Mails, ok \in BOOLEAN : Attempt(m, ok)
  \/ \E m \in Mails : Sleep(m)
  \/ \E m \in Mails : ReturnErr(m)

\* Emails being sent, each by its own call of Send.
SpecMail == InitDefault /\ [][NextMail]_vars

\* ---------------------------------------------------------------- claims
\* The requests from identity i that have entered the handler
Arrived(i) == {r \in Reqs : pc[r] # "new" /\ ip[r] = i}

\* ... whose Allow() has returned (limiting enabled)
Checked(i) ==
  {r \in Arrived(i) : pc[r] \in {"unlockA", "unlockD", "respond", "next", "done"}}

\* ... and returned true
Admitted(i) ==
  {r \in Checked(i) : pc[r] \in {"unlockA", "next"} \/ out[r] = "next"}

\* A handler between mutex.Lock() and mutex.Unlock()
InCS(r) ==
  pc[r] \in {"find", "create", "seen", "stamp", "load", "allow", "unlockA", "unlockD"}

\* The Client structs no longer in the map
Gone == DOMAIN heap \ Live

\* The Client of identity i, Nil when the map has none
Entry(i) == IF i \in DOMAIN clients THEN heap[clients[i]] ELSE Nil

\* The same as a set: empty when the map has none
EntrySet(i) == IF i \in DOMAIN clients THEN {heap[clients[i]]} ELSE {}

\* How many checks in a row, at one instant, limiter c admits (counted to n)
RECURSIVE AllowsUpTo(_, _)
AllowsUpTo(c, n) ==
  IF n = 0 \/ ~AllowOk(c) THEN 0 ELSE 1 + AllowsUpTo(AfterAllow(c), n - 1)

Allows(c) == AllowsUpTo(c, burst + 1)

\* 1/rps seconds, in ticks
TicksPerToken == TicksPerSecond \div rps

\* C1: with limiting enabled and no time passing, of the checks made so far
\* for an identity exactly the first burst are admitted: at every moment the
\* number admitted is min(number checked, burst).
C1_BurstThenDeny ==
  enabled => \A i \in IPs :
    Cardinality(Admitted(i)) = Min(Cardinality(Checked(i)), burst)

C1_Witness ==
  /\ enabled
  /\ \E i \in IPs : /\ Cardinality(Checked(i)) = burst + 1
                    /\ Cardinality(Admitted(i)) = burst

\* C2: handlers racing for one identity never over-admit: at most one handler
\* is between Lock and Unlock, and once all requests are answered exactly
\* min(requests, burst) of an identity's requests reached the next handler
\* and the rest got 429.
C2_NoOverAdmit ==
  enabled =>
    /\ Cardinality({r \in Reqs : InCS(r)}) <= 1
    /\ (\A r \in 1 .. nreq : pc[r] = "done") =>
         \A i \in IPs :
           /\ Cardinality({r \in Arrived(i) : out[r] = "next"})
                = Min(Cardinality(Arrived(i)), burst)
           /\ \A r \in Arrived(i) : out[r] \in {"next", "429"}

C2_Witness ==
  /\ enabled
  /\ \E r \in Reqs :
       /\ pc[r] = "allow"
       /\ Cardinality({q \in Reqs : pc[q] = "lock" /\ ip[q] = ip[r]}) >= burst

\* C3: every bucket holds between 0 and burst tokens, as stored and as
\* refilled up to now, however long it has been idle.
C3_TokensInRange ==
  \A p \in DOMAIN heap :
    /\ 0 <= heap[p].tokens /\ heap[p].tokens <= FullTokens
    /\ 0 <= Advanced(heap[p]) /\ Advanced(heap[p]) <= FullTokens

C3_Witness ==
  /\ burst >= 2
  /\ \E r \in Reqs, q \in Reqs :
       /\ q # r /\ ip[q] = ip[r]
       /\ out[q] = "next"
       /\ pc[r] = "unlockA"
       /\ Entry(ip[r]).tokens = FullTokens - OneToken

\* C4: a bucket that admits k < burst checks in a row admits exactly k + 1
\* in a row once 1/rps seconds have passed without a check; and over a run
\* an identity is admitted at most burst times plus once per 1/rps seconds
\* elapsed.
C4_RefillOnePerInterval ==
  /\ \A p \in Live :
       Allows(heap[p]) < burst =>
         Allows(Aged(heap[p], TicksPerToken)) = Allows(heap[p]) + 1
  /\ enabled => \A i \in IPs :
       Cardinality(Admitted(i)) <= burst + (fine \div TicksPerToken)

C4_Witness ==
  /\ burst = 1
  /\ fine = TicksPerToken
  /\ \E r1 \in Reqs, r2 \in Reqs :
       /\ r1 # r2 /\ ip[r1] = ip[r2]
       /\ out[r1] = "next"
       /\ pc[r2] = "unlockA"
       /\ Allows(Entry(ip[r2])) = 0

\* C5: a step of a request leaves the entry of every other identity as it
\* was, and a request is denied only when its own identity's bucket has no
\* token.
C5_Independent ==
  [][\A r \in Reqs :
       pc'[r] # pc[r] =>
         /\ \A i \in IPs \ {ip'[r]} : EntrySet(i)' = EntrySet(i)
         /\ pc'[r] = "unlockD" =>
              ~(ip[r] \in DOMAIN clients /\ AllowOk(Entry(ip[r])))]_vars

C5_Witness ==
  /\ Cardinality(Admitted(Unknown)) = burst
  /\ Unknown \in DOMAIN clients /\ ~AllowOk(Entry(Unknown))
  /\ \E q \in Reqs : ip[q] = "a" /\ pc[q] = "unlockA"

\* C6: with enabled = false no request takes the limiter's path and none
\* gets 429: every answered request reached the next handler.
C6_DisabledAdmitsAll ==
  ~enabled => \A r \in Reqs :
    /\ pc[r] \in {"new", "next", "done"}
    /\ out[r] # "429"
    /\ pc[r] = "done" => out[r] = "next"

C6_Witness ==
  /\ ~enabled
  /\ NumReq > burst
  /\ \A r \in Reqs : pc[r] = "done" /\ out[r] = "next" /\ ip[r] = Unknown

\* C7: every entry that was stale when a sweep began is out of the map once
\* the loop has passed it, and a request served by the Client it has itself
\* just created finds a full bucket: burst checks in a row would be admitted.
C7_EvictedThenFresh ==
  /\ epc = "scan" => (stale0 \cap DOMAIN clients) \subseteq todo
  /\ \A r \in Reqs :
       ( /\ pc[r] \in {"seen", "stamp", "load", "allow"}
         /\ ip[r] \in DOMAIN clients
         /\ Entry(ip[r]).by = r )
       => Allows(Entry(ip[r])) = burst

C7_Witness ==
  \E r \in Reqs :
    /\ pc[r] = "allow"
    /\ ptr[r] # Nil
    /\ heap[ptr[r]].by = r
    /\ \E q \in Gone : heap[q].key = ip[r] /\ heap[q].tokens = 0

\* C8: in a run without eviction a Client is allocated at most once per
\* identity, and the Client a handler has loaded is the one the map holds for
\* its identity.
C8_OneEntryPerIdentity ==
  /\ \A i \in IPs : Cardinality({p \in DOMAIN heap : heap[p].key = i}) <= 1
  /\ \A r \in Reqs :
       ptr[r] # Nil => ip[r] \in DOMAIN clients /\ ptr[r] = clients[ip[r]]

C8_Witness ==
  \E q \in Reqs, r \in Reqs :
    /\ q # r /\ ip[q] = ip[r]
    /\ pc[q] = "unlockA"
    /\ heap[clients[ip[q]]].by = q
    /\ pc[r] = "lock"
    /\ r < q

\* C9: the sweep is never inside its critical section while a handler is
\* inside its own, and from a handler's lookup-or-create to its Allow() the
\* entry of its identity stays in the map.
C9_MutualExclusion ==
  /\ ~(epc = "scan" /\ \E r \in Reqs : InCS(r))
  /\ \A r \in Reqs :
       pc[r] \in {"seen", "stamp", "load", "allow"} => ip[r] \in DOMAIN clients

C9_Witness ==
  /\ epc = "scan"
  /\ \E r \in Reqs : pc[r] = "lock" /\ ip[r] \in todo \cap stale0

\* C10: a Client that has left the map is never written again, never put
\* back and never held by a handler, and a handler that stores a Client
\* stores a newly allocated one.
C10_NoUseAfterDelete ==
  [][/\ \A p \in Gone : heap'[p] = heap[p] /\ p \notin Live'
     /\ \A r \in Reqs : ptr'[r] # Nil => ptr'[r] \in Live'
     /\ \A r \in Reqs :
          (pc[r] = "create" /\ pc'[r] = "seen") =>
            clients'[ip[r]] \notin DOMAIN heap]_vars

C10_Witness ==
  \E r \in Reqs :
    /\ out[r] = "next"
    /\ ip[r] \in DOMAIN clients
    /\ Entry(ip[r]).by = r
    /\ Entry(ip[r]).tokens = FullTokens - OneToken
    /\ \E q \in Gone : heap[q].key = ip[r] /\ heap[q].by # r

\* C11: under fair scheduling no identity's entry stays in the map for ever
\* once its requests have stopped: a run receives finitely many requests, so
\* every identity's requests stop, and from some moment on its entry is
\* absent and stays absent.
C11_IdleEntryGoes == \A i \in IPs : <>[](i \notin DOMAIN clients)

C11_Witness ==
  /\ \A r \in 1 .. nreq : pc[r] = "done"
  /\ clients = << >>
  /\ \A r \in 1 .. nreq : \E q \in Gone : heap[q].key = ip[r]

\* C12: the cleanup loop stops on shutdown: later than one sleep interval
\* after the graceful shutdown began, the loop takes the mutex for no
\* further sweep.
C12_EvictorStopsOnShutdown ==
  [][(shutdown /\ stopAge > SleepInterval) => ~(epc = "lock" /\ epc' = "scan")]_vars

\* C13: one cleanup goroutine is launched, when the middleware is
\* constructed and before any request, and handling requests launches no
\* other: however many requests have been handled, the goroutines sweeping
\* the map number exactly one.
C13_OneEvictor == loops = 1

C13_Witness ==
  /\ loops = 1
  /\ nreq >= 2
  /\ \A r \in 1 .. nreq : pc[r] = "done"
  /\ Gone # {}

\* C14: requests whose address resolves to the empty string are limited
\* like any other: they are all served from one Client, stored under the
\* key "", of their checks exactly the first burst are admitted, none
\* reaches the next handler without a Client having been made for the key,
\* and none panics.
C14_UnknownIsLimited ==
  enabled =>
    /\ Cardinality({p \in DOMAIN heap : heap[p].key = Unknown}) <= 1
    /\ Cardinality(Admitted(Unknown)) = Min(Cardinality(Checked(Unknown)), burst)
    /\ \A r \in Arrived(Unknown) :
         /\ pc[r] # "panic"
         /\ ptr[r] # Nil => Unknown \in DOMAIN clients /\ ptr[r] = clients[Unknown]
         /\ pc[r] \in {"next", "done"} => Unknown \in DOMAIN clients
         /\ pc[r] = "done" => out[r] \in {"next", "429"}

C14_Witness ==
  /\ enabled
  /\ Cardinality(Admitted(Unknown)) = burst
  /\ Cardinality({r \in Reqs : ip[r] = Unknown /\ out[r] = "next"}) = burst
  /\ \E r \in Reqs : ip[r] = Unknown /\ out[r] = "429"

\* C15: with limiting enabled a request gets one outcome, decided by
\* Allow(): when Allow() returns false the handler goes on to write the 429
\* and never to the next handler, when it returns true it goes on to the next
\* handler and never to the 429; an outcome is produced once, as the
\* handler's last step, and is never replaced.
C15_OneOutcome ==
  [][enabled => \A r \in Reqs :
       /\ (pc[r] = "allow" /\ pc'[r] # "allow") =>
            pc'[r] = (IF ptr[r] # Nil /\ AllowOk(heap[ptr[r]])
                      THEN "unlockA" ELSE IF ptr[r] # Nil THEN "unlockD" ELSE "panic")
       /\ pc[r] \in {"unlockD", "respond"} =>
            /\ out[r] = "none"
            /\ pc'[r] \in {"unlockD", "respond", "done"}
            /\ out'[r] \in {"none", "429"}
       /\ pc[r] \in {"unlockA", "next"} =>
            /\ out[r] = "none"
            /\ pc'[r] \in {"unlockA", "next", "done"}
            /\ out'[r] \in {"none", "next"}
       /\ pc'[r] = "done" => out'[r] \in {"next", "429"}
       /\ pc[r] = "done" => pc'[r] = "done" /\ out'[r] = out[r]
       /\ out'[r] # "none" => pc'[r] = "done"]_vars

C15_Witness ==
  /\ enabled
  /\ \E q \in Reqs, r \in Reqs :
       /\ ip[q] = ip[r]
       /\ pc[q] = "done" /\ out[q] = "next"
       /\ pc[r] = "done" /\ out[r] = "429"
  /\ \A r \in 1 .. nreq : pc[r] = "done"

\* A step of the cleanup goroutine
SweepStep == epc' # epc \/ todo' # todo

\* C16 as stated: a sweep removes exactly the entries that were idle for
\* more than 3 minutes when it began: an entry leaves the map only if it was
\* stale when the sweep took the mutex, all such entries are gone when the
\* sweep unlocks, and the sweep writes no Client.
C16_RemovesStaleAtStart ==
  [][/\ \A i \in IPs :
          (i \in DOMAIN clients /\ i \notin DOMAIN clients') => i \in stale0
     /\ (epc = "scan" /\ epc' = "sleep") => stale0 \cap DOMAIN clients = {}
     /\ SweepStep => heap' = heap]_vars

\* C16, amended: a sweep removes exactly the entries that are idle for more
\* than 3 minutes when its loop examines them: the iteration for a key
\* deletes the key if and only if its Client's idle time then exceeds the
\* threshold, nothing else deletes a key, the entries stale when the sweep
\* took the mutex are all gone when it unlocks, and the sweep writes no
\* Client and leaves the keys it keeps on the Clients they had.
C16_RemovesStaleWhenExamined ==
  [][/\ \A i \in IPs :
          /\ (epc = "scan" /\ i \in todo /\ i \notin todo' /\ i \in DOMAIN clients) =>
               IF heap[clients[i]].idle > MaxIdleTicks
               THEN i \notin DOMAIN clients'
               ELSE i \in DOMAIN clients' /\ clients'[i] = clients[i]
          /\ (i \in DOMAIN clients /\ i \notin DOMAIN clients') =>
               epc = "scan" /\ i \in todo /\ heap[clients[i]].idle > MaxIdleTicks
     /\ (epc = "scan" /\ epc' = "sleep") => stale0 \cap DOMAIN clients = {}
     /\ SweepStep => heap' = heap]_vars

C16_Witness ==
  /\ epc = "scan" /\ todo = {}
  /\ \E i \in IPs, j \in IPs :
       /\ i \in stale0 /\ i \notin DOMAIN clients
       /\ j \notin stale0 /\ j \in DOMAIN clients
       /\ Entry(j).idle = MaxIdleTicks

WaitFor(c) ==
  CHOOSE d \in 0 .. OneToken :
    /\ AllowOk(Aged(c, d))
    /\ \A e \in 0 .. (d - 1) : ~AllowOk(Aged(c, e))

\* C18: a check that is denied takes no token: the tokens the bucket holds
\* as of now (its stored tokens plus the refill since last, capped at burst)
\* are the same after the check as before it, and so is the time to wait
\* until a check would be admitted; a check that is admitted leaves exactly
\* one token less.
C18_DenyTakesNoToken ==
  [][\A r \in Reqs :
       (pc[r] = "allow" /\ pc'[r] # "allow" /\ ptr[r] # Nil) =>
         IF pc'[r] = "unlockD"
         THEN /\ Min(FullTokens, heap'[ptr[r]].tokens + heap'[ptr[r]].age)
                   = Min(FullTokens, heap[ptr[r]].tokens + heap[ptr[r]].age)
              /\ WaitFor(heap'[ptr[r]]) = WaitFor(heap[ptr[r]])
         ELSE /\ pc'[r] = "unlockA"
              /\ Min(FullTokens, heap'[ptr[r]].tokens + heap'[ptr[r]].age)
                   = Min(FullTokens, heap[ptr[r]].tokens + heap[ptr[r]].age) - OneToken]_vars

C18_Witness ==
  \E r \in Reqs :
    /\ pc[r] = "unlockD"
    /\ Entry(ip[r]).tokens = 0
    /\ Entry(ip[r]).age > 0
    /\ WaitFor(Entry(ip[r])) = OneToken - Entry(ip[r]).age

\* C19: a handler holds the mutex exactly from its Lock() to its Unlock(),
\* on the path that writes the 429 as on the path to the next handler, and
\* so never while either of the two runs; the cleanup goroutine holds it
\* exactly during its loop; and under fair scheduling every request that
\* has entered the limiter gets its outcome and every sweep that waits for
\* the mutex gets it.
C19_MutexReleased ==
  /\ [](\A r \in Reqs : (mutex = r) <=> InCS(r))
  /\ []((mutex = Sweeper) <=> (epc = "scan"))
  /\ \A r \in 1 .. FairReq : (pc[r] = "lock") ~> (pc[r] = "done")
  /\ (epc = "lock") ~> (epc = "scan")

C19_Witness ==
  /\ mutex = Sweeper
  /\ \E r \in Reqs : pc[r] = "respond"

\* The key i leaves the map in this step
Evicted(i) == i \in DOMAIN clients /\ i \notin DOMAIN clients'

\* The limiter's last is not later than the Client's lastSeen: no time went
\* by between line 101 and the Allow() of line 105 that last took a token.
Prompt(c) == c.age >= Min(ZeroTimeAge, c.idle)

C21_DisabledTouchesNothing ==
  ~enabled =>
    /\ [](/\ mutex \in {NoOne, Sweeper}
          /\ clients = << >> /\ heap = << >>
          /\ \A r \in Reqs : ptr[r] = Nil /\ pc[r] \in {"new", "next", "done"})
    /\ []<>(epc = "scan" /\ mutex = Sweeper /\ todo = {})

C21_Witness ==
  /\ ~enabled
  /\ \A r \in 1 .. nreq : pc[r] = "done" /\ out[r] = "next"
  /\ epc = "scan" /\ mutex = Sweeper /\ clients = << >>

\* The call of Update by request u returns in this step
Updates(u) == upc[u] = "update" /\ upc'[u] = "done"

\* The stored version is the one request u read
SameVersion(u) == row.present /\ row.version = basis[u]

\* C22: MovieModel.Update is an optimistic-locking update.  The row is
\* written only by a call whose caller read the version the row has, and is
\* then given the caller's fields and that version plus exactly 1; a call
\* that returns nil has written this and hands the new version back.  A call
\* whose caller read another version (or whose row is gone) leaves the row as
\* it is and returns an error, ErrEditConflict whenever the database answered
\* it, and ErrEditConflict is returned in no other case; the handler answers
\* 409 exactly then.  Hence of two requests that read the same version at most
\* one gets nil and the other gets an error, and the row's version counts at
\* least every call that returned nil: no update is lost.
C22_OptimisticLocking ==
  /\ [][\A u \in Upds : Updates(u) =>
         /\ row' # row =>
              /\ SameVersion(u)
              /\ row' = [present |-> TRUE, title |-> mv[u].title,
                         year |-> mv[u].year, version |-> row.version + 1]
         /\ uerr'[u] = "nil" =>
              /\ row' # row
              /\ mv'[u].version = basis[u] + 1
              /\ ures'[u] = "200"
         /\ ~SameVersion(u) =>
              /\ row' = row
              /\ uerr'[u] \in {"ErrEditConflict", "err"}
         /\ uerr'[u] = "ErrEditConflict" <=> (~SameVersion(u) /\ ures'[u] # "500")
         /\ uerr'[u] = "ErrEditConflict" <=> ures'[u] = "409"]_vars
  /\ [](\A u, v \in Upds :
          (u # v /\ basis[u] = basis[v] /\ uerr[u] = "nil") =>
             uerr[v] \in {"none", "ErrEditConflict", "err"})
  /\ [](Cardinality({u \in Upds : uerr[u] = "nil"}) <= row.version - FirstVersion)

\* One request changed the title and one the year of the same version: the
\* first was written, the second refused, and the title is kept.
C22_Witness ==
  \E u, v \in Upds :
    /\ u # v /\ basis[u] = basis[v] /\ basis[u] = FirstVersion
    /\ uerr[u] = "nil" /\ ures[u] = "200"
    /\ uerr[v] = "ErrEditConflict" /\ ures[v] = "409"
    /\ mv[u].title = "new" /\ mv[v].title = "old" /\ mv[v].year = 2001
    /\ row.present /\ row.title = "new" /\ row.year = 1999
    /\ row.version = FirstVersion + 1

\* Call m of Send makes an attempt in this step
Attempts(m) == sends'[m].sent # sends[m].sent

\* C23: Mailer.Send tries up to three times.  It never calls email.Send more
\* than 3 times; an attempt that works makes it return nil in that very step,
\* and once it has returned it makes no further attempt; before each attempt
\* after the first it has slept 500 ms since the attempt before (500 ms for
\* every failed attempt so far); and when it returns the error of an attempt,
\* three attempts have failed and the error is that of the third.
C23_ThreeAttempts ==
  /\ [](\A m \in Mails :
          /\ sends[m].sent <= 3
          /\ sends[m].ret = NoErr => sends[m].sent >= 1 /\ sends[m].err = NoErr
          /\ sends[m].ret \in {TemplateErr, ConnectErr} => sends[m].sent = 0
          /\ sends[m].ret \notin {NotYet, NoErr, TemplateErr, ConnectErr} =>
               /\ sends[m].sent = 3
               /\ sends[m].ret = SendErr(3)
               /\ sends[m].slept = 3 * 500)
  /\ [][\A m \in Mails :
         /\ Attempts(m) =>
              /\ sends[m].ret = NotYet
              /\ sends'[m].sent = sends[m].sent + 1
              /\ sends[m].slept = 500 * sends[m].sent
              /\ sends'[m].err = NoErr <=> sends'[m].ret = NoErr
              /\ sends'[m].err # NoErr => sends'[m].ret = NotYet
         /\ sends[m].ret # NotYet => sends'[m] = sends[m]
         /\ sends'[m].slept # sends[m].slept =>
              /\ sends'[m].slept = sends[m].slept + 500
              /\ sends[m].err # NoErr /\ sends'[m].sent = sends[m].sent]_vars

\* One call gave up after three failed attempts and got the error of the
\* third, one got through at its first attempt, and one is about to try again
\* after its first sleep.
C23_Witness ==
  /\ \E m \in Mails : /\ sends[m].ret = SendErr(3) /\ sends[m].sent = 3
                       /\ sends[m].slept = 1500
  /\ \E m \in Mails : /\ sends[m].ret = NoErr /\ sends[m].sent = 1
                       /\ sends[m].slept = 0
  /\ \E m \in Mails : /\ sends[m].pc = "send" /\ sends[m].sent = 1
                       /\ sends[m].slept = 500 /\ sends[m].ret = NotYet

====
